---------------------------- MODULE Spec2Model ----------------------------
(***************************************************************************)
(* A model of pthread-lib's multi_thread.c: the worker pool (create_threads *)
(* / join_threads), the cooperative stop flag, the status array, the index *)
(* lookup, the timed waits and the four pthread mutexes.                   *)
(*                                                                         *)
(* Thread 0 is the thread that manages the pool (the caller of             *)
(* create_threads and join_threads); threads 1..MaxThreads are the thread  *)
(* identifiers pthread_create can hand out.  Every library function is cut *)
(* into steps at its mutex operations: taking the lock, the body up to and *)
(* including the unlock, and the return.  C index i of an array is index   *)
(* i+1 of the sequence that models it.                                     *)
(***************************************************************************)
EXTENDS Integers, Sequences, FiniteSets, TLC

(* ------------------------------ bounds --------------------------------- *)
MaxPool == 2      \* largest num_threads handed to create_threads
MaxVal  == 1      \* status values and uninitialised ints range over 0..MaxVal
MaxSec  == 1      \* the system clock reads 0..MaxSec seconds
MaxWait == 2      \* timed waits are asked for up to MaxWait seconds or ms

MaxThreads == MaxPool       \* thread identifiers the system can hand out
Main       == 0
Tids       == 1..MaxThreads
Threads    == 0..MaxThreads
Values     == 0..MaxVal
Indexes    == (0 - 1)..MaxPool   \* the int arguments tried as an array index

NoOwner == 0 - 1

\* Pointers to the status array are compared for identity only: malloc gives
\* the block just released again, or another one.
NullPtr == "NULL"
Addrs   == {"blockA", "blockB"}

\* Every thread of a process whose memory was corrupted: what it does next
\* is undefined, and is followed no further.
Undefined == [t \in Threads |-> "undefined"]

\* Units of time.  tv_usec counts microseconds, tv_nsec nanoseconds.
NanoPerMicro == 1000
NanoPerMilli == 1000000
MilliPerSec  == NanoPerMilli \div NanoPerMicro
MicroPerSec  == MilliPerSec * MilliPerSec
NanoPerSec   == MicroPerSec * NanoPerMicro

\* The microsecond parts the clock is read at: the start, the middle and the
\* last microsecond of a second.
Usecs  == {0, MicroPerSec \div 2, MicroPerSec - 1}
Clocks == (0..MaxSec) \X Usecs

\* The int arguments tried as a duration: negative, zero, small, and a
\* whole second's worth of milliseconds.
WaitArgs == ((0 - 1)..MaxWait) \cup {MilliPerSec}

MutexNames == {"stop_mutex", "thread_pool_mutex", "pool_size_mutex", "status_array_mutex"}

VARIABLES
  pc,                  \* per thread: where it is; "none"/"exited" for a worker id
  arg,                 \* per thread: int argument of the call in progress
  val,                 \* per thread: second int argument (status)
  rv,                  \* per thread: the value the call returns
  iv,                  \* per thread: the loop variable i; the bytes a memset has stored
  sz,                  \* per thread: the local size of _find_my_index
  thread_pool,         \* the handle table; <<>> when NULL / released
  pool_size,
  thread_stop,
  status_array,        \* the ints of the status array; <<>> when NULL
  status_array_addr,   \* the pointer status_array; NullPtr when NULL
  sizeof_status_array,
  wild_write,          \* TRUE once a store landed outside the status array
  mutex,               \* the four pthread_mutex_t objects
  hung,                \* per worker: its function never returns
  t_status,            \* join_threads' argument; <<>> for NULL
  join_log,            \* what the running join_threads did, in order
  stop_epoch,          \* history of the stop flag's writers (see StopWrite)
  clock,               \* the system clock: <<seconds, microseconds>>
  tw_ts                \* per thread: the struct timespec ts of its timed wait

vars == <<pc, arg, val, rv, iv, sz, thread_pool, pool_size, thread_stop,
          status_array, status_array_addr, sizeof_status_array, wild_write,
          mutex, hung, t_status, join_log, stop_epoch, clock, tw_ts>>

locals  == <<arg, val, rv, iv, sz>>
poolv   == <<thread_pool, pool_size>>
statusv == <<status_array, status_array_addr, sizeof_status_array, wild_write>>
joinv   == <<t_status, join_log>>
waitv   == <<clock, tw_ts>>

(* ------------------------- pthread mutexes ------------------------------ *)
(* A mutex is a record: st is "static" (zero-filled static storage, never   *)
(* initialised), "init" (after pthread_mutex_init) or "destroyed"; owner is *)
(* the thread that holds it, or NoOwner.                                    *)

FreshMutex == [st |-> "init", owner |-> NoOwner]

\* pthread_mutex_lock(m) by thread t: the mutex functions it can return with.
\* Empty while another thread holds a live mutex (the caller blocks).  Locking
\* a destroyed mutex is undefined: it fails with EINVAL and the caller goes on
\* without holding it, or the object still works as a mutex.
LockOutcomes(m, t) ==
  LET held == [mutex EXCEPT ![m].owner = t]
  IN  IF mutex[m].st # "destroyed"
        THEN IF mutex[m].owner = NoOwner THEN {held} ELSE {}
        ELSE {mutex} \cup (IF mutex[m].owner = NoOwner THEN {held} ELSE {})

\* pthread_mutex_unlock(m) by thread t.  Unlocking a mutex the caller does not
\* hold is undefined: it fails and changes nothing, or it releases the mutex.
UnlockOutcomes(m, t) ==
  LET released == [mutex EXCEPT ![m].owner = NoOwner]
  IN  IF mutex[m].owner = t THEN {released} ELSE {mutex, released}

\* pthread_mutex_destroy of one mutex object.  Destroying a locked mutex is
\* undefined: it fails with EBUSY and the mutex stays as it is, or the object
\* is destroyed under its holder.
DestroyOutcomes(mx) ==
  IF mx.owner = NoOwner
    THEN {[st |-> "destroyed", owner |-> NoOwner]}
    ELSE {mx, [st |-> "destroyed", owner |-> mx.owner]}

Lock(m, t)   == \E mu \in LockOutcomes(m, t) : mutex' = mu
Unlock(m, t) == \E mu \in UnlockOutcomes(m, t) : mutex' = mu

Holds(t, m) == mutex[m].owner = t

(* ------------------------------ Init ------------------------------------ *)
Init ==
  /\ pc = [t \in Threads |-> IF t = Main THEN "idle" ELSE "none"]
  /\ arg = [t \in Threads |-> 0]
  /\ val = [t \in Threads |-> 0]
  /\ rv = [t \in Threads |-> 0]
  /\ iv = [t \in Threads |-> 0]
  /\ sz = [t \in Threads |-> 0]
  /\ thread_pool = <<>>
  /\ pool_size = 1
  /\ thread_stop = 0
  /\ status_array = <<>>
  /\ status_array_addr = NullPtr
  /\ sizeof_status_array = 0
  /\ wild_write = FALSE
  /\ mutex = [m \in MutexNames |-> [st |-> "static", owner |-> NoOwner]]
  /\ hung = [t \in Tids |-> FALSE]
  /\ t_status = <<>>
  /\ join_log = <<>>
  /\ stop_epoch = "none"
  /\ clock = <<0, 0>>
  /\ tw_ts = [t \in Threads |-> <<0, 0>>]

RetPcs == {"stop_ret", "setstop_ret", "should_ret", "gps_ret", "create_ret", "join_ret",
           "csa_ret", "isa_ret", "gsa_ret", "sse_ret", "tw_ret", "twm_ret", "fmi_ret"}

\* The return statement of a call: the thread is back in its caller.
Return(t) ==
  /\ pc[t] \in RetPcs
  /\ pc' = [pc EXCEPT ![t] = "idle"]
  /\ arg' = [arg EXCEPT ![t] = 0]
  /\ val' = [val EXCEPT ![t] = 0]
  /\ rv' = [rv EXCEPT ![t] = 0]
  /\ iv' = [iv EXCEPT ![t] = 0]
  /\ sz' = [sz EXCEPT ![t] = 0]
  /\ t_status' = IF t = Main THEN <<>> ELSE t_status
  /\ join_log' = IF t = Main THEN <<>> ELSE join_log
  /\ UNCHANGED <<poolv, thread_stop, statusv, mutex, hung, stop_epoch, waitv>>

(* --------------------------- stop flag ---------------------------------- *)
\* stop_threads: _lock_stop()
StopLock(t) ==
  /\ pc[t] = "idle"
  /\ Lock("stop_mutex", t)
  /\ pc' = [pc EXCEPT ![t] = "stop_cs"]
  /\ UNCHANGED <<locals, poolv, thread_stop, statusv, hung, joinv, stop_epoch, waitv>>

\* StopWrite with the store to thread_stop lost.
StopWriteLost(t) ==
  /\ pc[t] = "stop_cs"
  /\ thread_stop' = thread_stop
  /\ Unlock("stop_mutex", t)
  /\ stop_epoch' = "stopped"
  /\ pc' = [pc EXCEPT ![t] = "stop_ret"]
  /\ UNCHANGED <<locals, poolv, statusv, hung, joinv, waitv>>

\* StopWrite that flips the flag.
StopWriteToggle(t) ==
  /\ pc[t] = "stop_cs"
  /\ thread_stop' = 1 - thread_stop
  /\ Unlock("stop_mutex", t)
  /\ stop_epoch' = "stopped"
  /\ pc' = [pc EXCEPT ![t] = "stop_ret"]
  /\ UNCHANGED <<locals, poolv, statusv, hung, joinv, waitv>>

\* stop_threads: thread_stop = 1; _unlock_stop().  stop_epoch records that a
\* stop_threads call has completed since the flag was last cleared.
StopWrite(t) ==
  /\ pc[t] = "stop_cs"
  /\ thread_stop' = 1
  /\ Unlock("stop_mutex", t)
  /\ stop_epoch' = "stopped"
  /\ pc' = [pc EXCEPT ![t] = "stop_ret"]
  /\ UNCHANGED <<locals, poolv, statusv, hung, joinv, waitv>>

\* set_stop(stop): _lock_stop()
SetStopLock(t, stop) ==
  /\ pc[t] = "idle"
  /\ Lock("stop_mutex", t)
  /\ arg' = [arg EXCEPT ![t] = stop]
  /\ pc' = [pc EXCEPT ![t] = "setstop_cs"]
  /\ UNCHANGED <<val, rv, iv, sz, poolv, thread_stop, statusv, hung, joinv, stop_epoch, waitv>>

\* set_stop(stop): thread_stop = stop; _unlock_stop().  Clearing the flag
\* ends the epoch a stop_threads began; the argument is dead from here on.
SetStopWrite(t) ==
  /\ pc[t] = "setstop_cs"
  /\ thread_stop' = arg[t]
  /\ Unlock("stop_mutex", t)
  /\ stop_epoch' = IF arg[t] = 0 THEN "none" ELSE stop_epoch
  /\ pc' = [pc EXCEPT ![t] = "setstop_ret"]
  /\ arg' = [arg EXCEPT ![t] = 0]
  /\ UNCHANGED <<val, rv, iv, sz, poolv, statusv, hung, joinv, waitv>>

\* should_stop: _lock_stop()
ShouldLock(t) ==
  /\ pc[t] = "idle"
  /\ Lock("stop_mutex", t)
  /\ pc' = [pc EXCEPT ![t] = "should_cs"]
  /\ UNCHANGED <<locals, poolv, thread_stop, statusv, hung, joinv, stop_epoch, waitv>>

\* ShouldRead that returns its local's initial 0 and not the flag.
ShouldReadStale(t) ==
  /\ pc[t] = "should_cs"
  /\ rv' = [rv EXCEPT ![t] = 0]
  /\ Unlock("stop_mutex", t)
  /\ pc' = [pc EXCEPT ![t] = "should_ret"]
  /\ UNCHANGED <<arg, val, iv, sz, poolv, thread_stop, statusv, hung, joinv, stop_epoch, waitv>>

\* should_stop: should_stop = thread_stop; _unlock_stop()
ShouldRead(t) ==
  /\ pc[t] = "should_cs"
  /\ rv' = [rv EXCEPT ![t] = thread_stop]
  /\ Unlock("stop_mutex", t)
  /\ pc' = [pc EXCEPT ![t] = "should_ret"]
  /\ UNCHANGED <<arg, val, iv, sz, poolv, thread_stop, statusv, hung, joinv, stop_epoch, waitv>>

(* --------------------------- pool size ---------------------------------- *)
\* get_pool_size: _lock_pool_size()
GpsLock(t) ==
  /\ pc[t] = "idle"
  /\ Lock("pool_size_mutex", t)
  /\ pc' = [pc EXCEPT ![t] = "gps_cs"]
  /\ UNCHANGED <<locals, poolv, thread_stop, statusv, hung, joinv, stop_epoch, waitv>>

\* get_pool_size: size = pool_size; _unlock_pool_size()
GpsRead(t) ==
  /\ pc[t] = "gps_cs"
  /\ rv' = [rv EXCEPT ![t] = pool_size]
  /\ Unlock("pool_size_mutex", t)
  /\ pc' = [pc EXCEPT ![t] = "gps_ret"]
  /\ UNCHANGED <<arg, val, iv, sz, poolv, thread_stop, statusv, hung, joinv, stop_epoch, waitv>>

(* --------------------------- status array ------------------------------- *)
\* FREE(p) of util.h: the block p points to is released and p designates no
\* array any more.
FREE == <<>>

\* create_status_array: _lock_status_array()
CsaLock(t) ==
  /\ pc[t] \in {"idle", "isa_create"}
  /\ Lock("status_array_mutex", t)
  /\ arg' = [arg EXCEPT ![t] = IF pc[t] = "isa_create" THEN 1 ELSE 0]
  /\ pc' = [pc EXCEPT ![t] = "csa_cs"]
  /\ UNCHANGED <<val, rv, iv, sz, poolv, thread_stop, statusv, hung, joinv, stop_epoch, waitv>>

\* CsaBody that records the new length and keeps the old array.
CsaBodyKeepArray(t) ==
  /\ pc[t] = "csa_cs"
  /\ sizeof_status_array' = pool_size
  /\ status_array_addr' = status_array_addr
  /\ status_array' = status_array
  /\ Unlock("status_array_mutex", t)
  /\ pc' = [pc EXCEPT ![t] = IF arg[t] = 1 THEN "isa_ret" ELSE "csa_ret"]
  /\ UNCHANGED <<locals, poolv, thread_stop, wild_write, hung, joinv, stop_epoch, waitv>>

\* create_status_array: FREE(status_array); sizeof_status_array = pool_size;
\* status_array = malloc(sizeof(int) * sizeof_status_array), a block at any
\* address whose contents are indeterminate; _unlock_status_array().  arg is 1
\* when init_status_array made the call, which then returns too.
CsaBody(t) ==
  /\ pc[t] = "csa_cs"
  /\ sizeof_status_array' = pool_size
  /\ \E a \in Addrs : status_array_addr' = a
  /\ \E garbage \in [1..pool_size -> Values] : status_array' = garbage
  /\ Unlock("status_array_mutex", t)
  /\ pc' = [pc EXCEPT ![t] = IF arg[t] = 1 THEN "isa_ret" ELSE "csa_ret"]
  /\ UNCHANGED <<locals, poolv, thread_stop, wild_write, hung, joinv, stop_epoch, waitv>>

\* IsaCall that recreates the array whatever the sizes are.
IsaCallAlwaysCreate(t) ==
  /\ pc[t] = "idle"
  /\ pc' = [pc EXCEPT ![t] = "isa_create"]
  /\ UNCHANGED <<locals, poolv, thread_stop, statusv, mutex, hung, joinv, stop_epoch, waitv>>

\* init_status_array: if(pool_size != sizeof_status_array), read with no lock
\* held; the branch taken is kept in pc.
IsaCall(t) ==
  /\ pc[t] = "idle"
  /\ pc' = [pc EXCEPT ![t] = IF pool_size # sizeof_status_array
                               THEN "isa_create" ELSE "isa_zero"]
  /\ UNCHANGED <<locals, poolv, thread_stop, statusv, mutex, hung, joinv, stop_epoch, waitv>>

\* init_status_array, else branch: _lock_status_array()
IsaLock(t) ==
  /\ pc[t] = "isa_zero"
  /\ Lock("status_array_mutex", t)
  /\ pc' = [pc EXCEPT ![t] = "isa_cs"]
  /\ UNCHANGED <<locals, poolv, thread_stop, statusv, hung, joinv, stop_epoch, waitv>>

\* init_status_array, else branch: memset(status_array, 0, sizeof(int) *
\* sizeof_status_array); _unlock_status_array().  Bytes past the end of the
\* block are a store outside the array.
IsaMemset(t) ==
  /\ pc[t] = "isa_cs"
  /\ status_array' = [i \in 1..Len(status_array) |->
                        IF i <= sizeof_status_array THEN 0 ELSE status_array[i]]
  /\ wild_write' = (wild_write \/ sizeof_status_array > Len(status_array))
  /\ Unlock("status_array_mutex", t)
  /\ pc' = IF wild_write' THEN Undefined ELSE [pc EXCEPT ![t] = "isa_ret"]
  /\ UNCHANGED <<locals, poolv, thread_stop, status_array_addr, sizeof_status_array,
                 hung, joinv, stop_epoch, waitv>>

\* get_status_array: _lock_status_array()
GsaLock(t) ==
  /\ pc[t] = "idle"
  /\ Lock("status_array_mutex", t)
  /\ pc' = [pc EXCEPT ![t] = "gsa_cs"]
  /\ UNCHANGED <<locals, poolv, thread_stop, statusv, hung, joinv, stop_epoch, waitv>>

\* get_status_array: sa = status_array; _unlock_status_array()
GsaRead(t) ==
  /\ pc[t] = "gsa_cs"
  /\ rv' = [rv EXCEPT ![t] = status_array_addr]
  /\ Unlock("status_array_mutex", t)
  /\ pc' = [pc EXCEPT ![t] = "gsa_ret"]
  /\ UNCHANGED <<arg, val, iv, sz, poolv, thread_stop, statusv, hung, joinv, stop_epoch, waitv>>

\* set_status_element(index, status): _lock_status_array()
SseLock(t, index, status) ==
  /\ pc[t] = "idle"
  /\ Lock("status_array_mutex", t)
  /\ arg' = [arg EXCEPT ![t] = index]
  /\ val' = [val EXCEPT ![t] = status]
  /\ pc' = [pc EXCEPT ![t] = "sse_cs"]
  /\ UNCHANGED <<rv, iv, sz, poolv, thread_stop, statusv, hung, joinv, stop_epoch, waitv>>

\* The test that guards the store: if(index < sizeof_status_array)
SseInRange(index) == index < sizeof_status_array

\* set_status_element: the guarded store status_array[index] = status, rc, and
\* _unlock_status_array().  A store to an index the block does not have lands
\* outside the array.  The arguments are dead from here on.
SseBody(t) ==
  /\ pc[t] = "sse_cs"
  /\ IF SseInRange(arg[t])
       THEN /\ rv' = [rv EXCEPT ![t] = 1]
            /\ IF arg[t] >= 0 /\ arg[t] < Len(status_array)
                 THEN /\ status_array' = [status_array EXCEPT ![arg[t] + 1] = val[t]]
                      /\ wild_write' = wild_write
                 ELSE /\ status_array' = status_array
                      /\ wild_write' = TRUE
       ELSE /\ rv' = [rv EXCEPT ![t] = 0]
            /\ UNCHANGED <<status_array, wild_write>>
  /\ Unlock("status_array_mutex", t)
  /\ pc' = IF wild_write' THEN Undefined ELSE [pc EXCEPT ![t] = "sse_ret"]
  /\ arg' = [arg EXCEPT ![t] = 0]
  /\ val' = [val EXCEPT ![t] = 0]
  /\ UNCHANGED <<iv, sz, poolv, thread_stop, status_array_addr,
                 sizeof_status_array, hung, joinv, stop_epoch, waitv>>

(* ------------------------- create_threads ------------------------------- *)
FreeTids == {w \in Tids : pc[w] = "none"}

\* The id pthread_create gives the next thread: one no running or unjoined
\* thread has.  Ids are opaque and compared for equality only, so the lowest
\* free one stands for any of them.
NewTid == CHOOSE w \in FreeTids : \A v \in FreeTids : w <= v

\* CreateCall that does not record the new size.
CreateCallKeepSize(num_threads) ==
  /\ pc[Main] = "idle"
  /\ thread_pool = <<>>
  /\ Cardinality(FreeTids) >= num_threads
  /\ arg' = [arg EXCEPT ![Main] = num_threads]
  /\ pool_size' = pool_size
  /\ pc' = [pc EXCEPT ![Main] = "create_malloc"]
  /\ UNCHANGED <<val, rv, iv, sz, thread_pool, thread_stop, statusv, mutex, hung, joinv, stop_epoch, waitv>>

\* create_threads(func_ptr, parameter, num_threads): pool_size = num_threads.
\* The caller creates a pool only when it holds none (after join_threads or
\* at start), and only while the system has num_threads thread ids to give.
CreateCall(num_threads) ==
  /\ pc[Main] = "idle"
  /\ thread_pool = <<>>
  /\ Cardinality(FreeTids) >= num_threads
  /\ arg' = [arg EXCEPT ![Main] = num_threads]
  /\ pool_size' = num_threads
  /\ pc' = [pc EXCEPT ![Main] = "create_malloc"]
  /\ UNCHANGED <<val, rv, iv, sz, thread_pool, thread_stop, statusv, mutex, hung, joinv, stop_epoch, waitv>>

\* thread_pool = malloc(pool_size * sizeof(*thread_pool)): the block's
\* contents are indeterminate.
CreateMalloc ==
  /\ pc[Main] = "create_malloc"
  /\ \E garbage \in [1..pool_size -> Threads] : thread_pool' = garbage
  /\ pc' = [pc EXCEPT ![Main] = "create_mutexes"]
  /\ UNCHANGED <<locals, pool_size, thread_stop, statusv, mutex, hung, joinv, stop_epoch, waitv>>

\* _create_local_mutexes(): pthread_mutex_init of the four mutexes
CreateLocalMutexes ==
  /\ pc[Main] = "create_mutexes"
  /\ mutex' = [m \in MutexNames |-> FreshMutex]
  /\ pc' = [pc EXCEPT ![Main] = "create_stop"]
  /\ UNCHANGED <<locals, poolv, thread_stop, statusv, hung, joinv, stop_epoch, waitv>>

\* thread_stop = 0 (no lock taken); i = 0
CreateClearStop ==
  /\ pc[Main] = "create_stop"
  /\ thread_stop' = 0
  /\ stop_epoch' = IF stop_epoch = "none" THEN "none" ELSE "recreated"
  /\ iv' = [iv EXCEPT ![Main] = 0]
  /\ pc' = [pc EXCEPT ![Main] = "create_loop"]
  /\ UNCHANGED <<arg, val, rv, sz, poolv, statusv, mutex, hung, joinv, waitv>>

\* One round of the loop: pthread_create(&thread_pool[i], NULL, func_ptr,
\* parameter) starts a thread with an unused id and stores the id; h says
\* whether the function it runs ever returns.
CreateSpawn(h) ==
  /\ pc[Main] = "create_loop"
  /\ iv[Main] < pool_size
  /\ FreeTids # {}
  /\ thread_pool' = [thread_pool EXCEPT ![iv[Main] + 1] = NewTid]
  /\ pc' = [pc EXCEPT ![NewTid] = "idle"]
  /\ hung' = [hung EXCEPT ![NewTid] = h]
  /\ iv' = [iv EXCEPT ![Main] = iv[Main] + 1]
  /\ UNCHANGED <<arg, val, rv, sz, pool_size, thread_stop, statusv, mutex, joinv, stop_epoch, waitv>>

\* Loop exit and return thread_pool
CreateReturn ==
  /\ pc[Main] = "create_loop"
  /\ iv[Main] >= pool_size
  /\ pc' = [pc EXCEPT ![Main] = "create_ret"]
  /\ UNCHANGED <<locals, poolv, thread_stop, statusv, mutex, hung, joinv, stop_epoch, waitv>>

(* -------------------------- join_threads -------------------------------- *)
LivenessArrays == [1..pool_size -> 0..1]

\* join_threads(t_status): will_check_status, the first printf, i = 0.
\* ts is <<>> for NULL, or an array of pool_size flags.
JoinCall(ts) ==
  /\ pc[Main] = "idle"
  /\ thread_pool # <<>>
  /\ t_status' = ts
  /\ arg' = [arg EXCEPT ![Main] = IF ts = <<>> THEN 0 ELSE 1]
  /\ iv' = [iv EXCEPT ![Main] = 0]
  /\ join_log' = <<>>
  /\ pc' = [pc EXCEPT ![Main] = "join_loop"]
  /\ UNCHANGED <<val, rv, sz, poolv, thread_stop, statusv, mutex, hung, stop_epoch, waitv>>

will_check_status == arg[Main]

\* JoinStep with the test of the flag inverted.
JoinStepInverted ==
  /\ pc[Main] = "join_loop"
  /\ iv[Main] < pool_size
  /\ IF will_check_status = 1 /\ t_status[iv[Main] + 1] # 0
       THEN /\ join_log' = Append(join_log, <<"hung", iv[Main]>>)
            /\ iv' = [iv EXCEPT ![Main] = iv[Main] + 1]
            /\ pc' = pc
       ELSE /\ join_log' = Append(join_log, <<"join", iv[Main]>>)
            /\ iv' = iv
            /\ pc' = [pc EXCEPT ![Main] = "join_wait"]
  /\ UNCHANGED <<arg, val, rv, sz, poolv, thread_stop, statusv, mutex, hung, t_status, stop_epoch, waitv>>

\* JoinStep that joins every worker, whatever its flag.
JoinStepAll ==
  /\ pc[Main] = "join_loop"
  /\ iv[Main] < pool_size
  /\ join_log' = Append(join_log, <<"join", iv[Main]>>)
  /\ pc' = [pc EXCEPT ![Main] = "join_wait"]
  /\ UNCHANGED <<locals, poolv, thread_stop, statusv, mutex, hung, t_status, stop_epoch, waitv>>

\* JoinStep that, given no flags, skips the workers whose status slot is 0.
JoinStepByStatus ==
  /\ pc[Main] = "join_loop"
  /\ iv[Main] < pool_size
  /\ IF \/ will_check_status = 1 /\ t_status[iv[Main] + 1] = 0
        \/ will_check_status = 0 /\ iv[Main] < Len(status_array)
                                 /\ status_array[iv[Main] + 1] = 0
       THEN /\ join_log' = Append(join_log, <<"hung", iv[Main]>>)
            /\ iv' = [iv EXCEPT ![Main] = iv[Main] + 1]
            /\ pc' = pc
       ELSE /\ join_log' = Append(join_log, <<"join", iv[Main]>>)
            /\ iv' = iv
            /\ pc' = [pc EXCEPT ![Main] = "join_wait"]
  /\ UNCHANGED <<arg, val, rv, sz, poolv, thread_stop, statusv, mutex, hung, t_status, stop_epoch, waitv>>

\* One round of the loop up to the call of pthread_join, or the whole round
\* when the worker is skipped.
JoinStep ==
  /\ pc[Main] = "join_loop"
  /\ iv[Main] < pool_size
  /\ IF will_check_status = 1 /\ t_status[iv[Main] + 1] = 0
       THEN /\ join_log' = Append(join_log, <<"hung", iv[Main]>>)
            /\ iv' = [iv EXCEPT ![Main] = iv[Main] + 1]
            /\ pc' = pc
       ELSE /\ join_log' = Append(join_log, <<"join", iv[Main]>>)
            /\ iv' = iv
            /\ pc' = [pc EXCEPT ![Main] = "join_wait"]
  /\ UNCHANGED <<arg, val, rv, sz, poolv, thread_stop, statusv, mutex, hung, t_status, stop_epoch, waitv>>

\* pthread_join(thread_pool[i], &ret_value) returns: the thread has ended
\* and is reaped, or the handle names no joinable thread and the call fails
\* (CHECK_STATUS logs it).  It does not return while the thread runs.
JoinWait ==
  /\ pc[Main] = "join_wait"
  /\ LET h == thread_pool[iv[Main] + 1]
     IN  \/ /\ h \in Tids
            /\ pc[h] = "exited"
            /\ pc' = [pc EXCEPT ![h] = "none", ![Main] = "join_loop"]
         \/ /\ (h \notin Tids \/ pc[h] = "none")
            /\ pc' = [pc EXCEPT ![Main] = "join_loop"]
  /\ iv' = [iv EXCEPT ![Main] = iv[Main] + 1]
  /\ UNCHANGED <<arg, val, rv, sz, poolv, thread_stop, statusv, mutex, hung, joinv, stop_epoch, waitv>>

\* Loop exit, the last printf and FREE(thread_pool)
JoinFree ==
  /\ pc[Main] = "join_loop"
  /\ iv[Main] >= pool_size
  /\ thread_pool' = FREE
  /\ pc' = [pc EXCEPT ![Main] = "join_destroy"]
  /\ UNCHANGED <<locals, pool_size, thread_stop, statusv, mutex, hung, joinv, stop_epoch, waitv>>

\* _destroy_all_mutexes(): pthread_mutex_destroy of the four mutexes
DestroyAllMutexes ==
  /\ pc[Main] = "join_destroy"
  /\ mutex' \in [MutexNames -> UNION {DestroyOutcomes(mutex[m]) : m \in MutexNames}]
  /\ \A m \in MutexNames : mutex'[m] \in DestroyOutcomes(mutex[m])
  /\ pc' = [pc EXCEPT ![Main] = "join_ret"]
  /\ UNCHANGED <<locals, poolv, thread_stop, statusv, hung, joinv, stop_epoch, waitv>>

(* ----------------------------- workers ---------------------------------- *)
\* The function a worker runs returns: the thread ends and waits to be joined.
WorkerExit(w) ==
  /\ w \in Tids
  /\ pc[w] = "idle"
  /\ ~hung[w]
  /\ pc' = [pc EXCEPT ![w] = "exited"]
  /\ UNCHANGED <<locals, poolv, thread_stop, statusv, mutex, hung, joinv, stop_epoch, waitv>>

\* A cooperating worker's loop, while(!should_stop()) { ... }: should_stop
\* returned false and the worker goes round again.  A hung worker goes round
\* whatever it read.
CoopReturn(w) ==
  /\ w \in Tids
  /\ pc[w] = "should_ret"
  /\ (hung[w] \/ rv[w] = 0)
  /\ Return(w)

\* A cooperating worker's loop ends: should_stop returned true and the
\* worker's function returns.
CoopExit(w) ==
  /\ w \in Tids
  /\ pc[w] = "should_ret"
  /\ rv[w] = 1
  /\ ~hung[w]
  /\ pc' = [pc EXCEPT ![w] = "exited"]
  /\ rv' = [rv EXCEPT ![w] = 0]
  /\ UNCHANGED <<arg, val, iv, sz, poolv, thread_stop, statusv, mutex, hung, joinv, stop_epoch, waitv>>

(* -------------------------- process exit --------------------------------- *)
\* ERROR_CODE_MALLOC of multi_thread.h: the exit status kept for a failed
\* allocation.
ERROR_CODE_MALLOC == "ERROR_CODE_MALLOC"

\* exit(status): the process ends and every thread with it; what is left is
\* the exit status.
Exited(status) == [t \in Threads |-> status]

\* create_threads when malloc returns NULL: LOG_ERROR and
\* exit(ERROR_CODE_MALLOC).
CreateMallocFail ==
  /\ pc[Main] = "create_malloc"
  /\ thread_pool' = <<>>
  /\ pc' = Exited(ERROR_CODE_MALLOC)
  /\ UNCHANGED <<locals, pool_size, thread_stop, statusv, mutex, hung, joinv, stop_epoch, waitv>>

\* CsaMallocFail that does not unlock before the exit.
CsaMallocFailLocked(t) ==
  /\ pc[t] = "csa_cs"
  /\ sizeof_status_array' = pool_size
  /\ status_array_addr' = NullPtr
  /\ status_array' = <<>>
  /\ mutex' = mutex
  /\ rv' = [rv EXCEPT ![t] = ERROR_CODE_MALLOC]
  /\ arg' = [arg EXCEPT ![t] = 0]
  /\ pc' = [pc EXCEPT ![t] = "csa_exit"]
  /\ UNCHANGED <<val, iv, sz, poolv, thread_stop, wild_write, hung, joinv, stop_epoch, waitv>>

\* create_status_array when malloc returns NULL: FREE(status_array);
\* sizeof_status_array = pool_size; status_array = NULL;
\* rc = ERROR_CODE_MALLOC; _unlock_status_array().
CsaMallocFail(t) ==
  /\ pc[t] = "csa_cs"
  /\ sizeof_status_array' = pool_size
  /\ status_array_addr' = NullPtr
  /\ status_array' = <<>>
  /\ Unlock("status_array_mutex", t)
  /\ rv' = [rv EXCEPT ![t] = ERROR_CODE_MALLOC]
  /\ arg' = [arg EXCEPT ![t] = 0]
  /\ pc' = [pc EXCEPT ![t] = "csa_exit"]
  /\ UNCHANGED <<val, iv, sz, poolv, thread_stop, wild_write, hung, joinv, stop_epoch, waitv>>

\* create_status_array: if(rc){ exit(rc); }
CsaExit(t) ==
  /\ pc[t] = "csa_exit"
  /\ pc' = Exited(rv[t])
  /\ UNCHANGED <<locals, poolv, thread_stop, statusv, mutex, hung, joinv, stop_epoch, waitv>>

(* ---------------------- pthread_create, in detail ------------------------ *)
(* pthread_create(&thread_pool[i], ...) stores the new thread's id "upon     *)
(* successful completion": CreateSpawn is the order in which the id is in    *)
(* the table when the thread starts to run; CreateStart and CreateStore are  *)
(* the order in which the thread runs first.  When pthread_create fails the  *)
(* slot keeps what malloc left in it and CHECK_STATUS logs the status.       *)

\* pthread_create has started the thread and has not stored its id yet.
CreateStart ==
  /\ pc[Main] = "create_loop"
  /\ iv[Main] < pool_size
  /\ FreeTids # {}
  /\ val' = [val EXCEPT ![Main] = NewTid]
  /\ pc' = [pc EXCEPT ![NewTid] = "idle", ![Main] = "create_store"]
  /\ hung' = [hung EXCEPT ![NewTid] = FALSE]
  /\ UNCHANGED <<arg, rv, iv, sz, poolv, thread_stop, statusv, mutex, joinv, stop_epoch, waitv>>

\* pthread_create stores the id and returns; i++.
CreateStore ==
  /\ pc[Main] = "create_store"
  /\ thread_pool' = [thread_pool EXCEPT ![iv[Main] + 1] = val[Main]]
  /\ val' = [val EXCEPT ![Main] = 0]
  /\ iv' = [iv EXCEPT ![Main] = iv[Main] + 1]
  /\ pc' = [pc EXCEPT ![Main] = "create_loop"]
  /\ UNCHANGED <<arg, rv, sz, pool_size, thread_stop, statusv, mutex, hung, joinv, stop_epoch, waitv>>

\* pthread_create fails: no thread, the slot is not written; i++.
CreateFail ==
  /\ pc[Main] = "create_loop"
  /\ iv[Main] < pool_size
  /\ iv' = [iv EXCEPT ![Main] = iv[Main] + 1]
  /\ UNCHANGED <<pc, arg, val, rv, sz, poolv, thread_stop, statusv, mutex, hung, joinv, stop_epoch, waitv>>

(* --------------------------- _find_my_index ------------------------------ *)
\* _find_my_index(thread): the call of get_pool_size() and its
\* _lock_pool_size()
FmiCall(t, thread) ==
  /\ pc[t] = "idle"
  /\ Lock("pool_size_mutex", t)
  /\ arg' = [arg EXCEPT ![t] = thread]
  /\ pc' = [pc EXCEPT ![t] = "fmi_gps_cs"]
  /\ UNCHANGED <<val, rv, iv, sz, poolv, thread_stop, statusv, hung, joinv, stop_epoch, waitv>>

\* FmiSize that leaves the pool-size lock held.
FmiSizeKeepLock(t) ==
  /\ pc[t] = "fmi_gps_cs"
  /\ sz' = [sz EXCEPT ![t] = pool_size]
  /\ mutex' = mutex
  /\ pc' = [pc EXCEPT ![t] = "fmi_lock"]
  /\ UNCHANGED <<arg, val, rv, iv, poolv, thread_stop, statusv, hung, joinv, stop_epoch, waitv>>

\* get_pool_size: size = pool_size; _unlock_pool_size(); and back in
\* _find_my_index, int size = the value returned.
FmiSize(t) ==
  /\ pc[t] = "fmi_gps_cs"
  /\ sz' = [sz EXCEPT ![t] = pool_size]
  /\ Unlock("pool_size_mutex", t)
  /\ pc' = [pc EXCEPT ![t] = "fmi_lock"]
  /\ UNCHANGED <<arg, val, rv, iv, poolv, thread_stop, statusv, hung, joinv, stop_epoch, waitv>>

\* _lock_thread_pool(); i = 0
FmiLock(t) ==
  /\ pc[t] = "fmi_lock"
  /\ Lock("thread_pool_mutex", t)
  /\ iv' = [iv EXCEPT ![t] = 0]
  /\ pc' = [pc EXCEPT ![t] = "fmi_scan"]
  /\ UNCHANGED <<arg, val, rv, sz, poolv, thread_stop, statusv, hung, joinv, stop_epoch, waitv>>

\* What a read of thread_pool[i] gives: the slot, or any value when the
\* table has no slot i (the block is shorter than size).
SlotValues(i) ==
  IF i < Len(thread_pool) THEN {thread_pool[i + 1]} ELSE Threads

\* One round of for(i=0; i<size; i++): pthread_equal(thread, thread_pool[i])
\* and the break, or i++.  With thread_pool NULL the read is a null-pointer
\* dereference.
FmiScan(t) ==
  /\ pc[t] = "fmi_scan"
  /\ iv[t] < sz[t]
  /\ IF thread_pool = <<>>
       THEN /\ pc' = Undefined
            /\ iv' = iv
       ELSE \E h \in SlotValues(iv[t]) :
              IF h = arg[t]
                THEN /\ pc' = [pc EXCEPT ![t] = "fmi_found"]
                     /\ iv' = iv
                ELSE /\ pc' = pc
                     /\ iv' = [iv EXCEPT ![t] = iv[t] + 1]
  /\ UNCHANGED <<arg, val, rv, sz, poolv, thread_stop, statusv, mutex, hung, joinv, stop_epoch, waitv>>

\* FmiUnlock that reports a thread it did not find as index 0.
FmiUnlockZero(t) ==
  /\ pc[t] = "fmi_found" \/ (pc[t] = "fmi_scan" /\ iv[t] >= sz[t])
  /\ Unlock("thread_pool_mutex", t)
  /\ rv' = [rv EXCEPT ![t] = IF iv[t] >= sz[t] THEN 0 ELSE iv[t]]
  /\ iv' = [iv EXCEPT ![t] = 0]
  /\ sz' = [sz EXCEPT ![t] = 0]
  /\ pc' = [pc EXCEPT ![t] = "fmi_ret"]
  /\ UNCHANGED <<arg, val, poolv, thread_stop, statusv, hung, joinv, stop_epoch, waitv>>

\* After the loop: _unlock_thread_pool(); if(i >= size) i = -1 and
\* LOG_ERROR; return i.  i and size are dead from here on.
FmiUnlock(t) ==
  /\ pc[t] = "fmi_found" \/ (pc[t] = "fmi_scan" /\ iv[t] >= sz[t])
  /\ Unlock("thread_pool_mutex", t)
  /\ rv' = [rv EXCEPT ![t] = IF iv[t] >= sz[t] THEN 0 - 1 ELSE iv[t]]
  /\ iv' = [iv EXCEPT ![t] = 0]
  /\ sz' = [sz EXCEPT ![t] = 0]
  /\ pc' = [pc EXCEPT ![t] = "fmi_ret"]
  /\ UNCHANGED <<arg, val, poolv, thread_stop, statusv, hung, joinv, stop_epoch, waitv>>

(* ----------------------------- timed waits ------------------------------ *)
(* timed_wait and timed_wait_milli share nothing with the pool: their mutex  *)
(* and condition variable are locals of the call, locked and destroyed by it, *)
(* and no other thread can name them.  What they share with the world is the *)
(* clock.  A time is <<seconds, nanoseconds>>.                                *)

\* t1 is not later than t2
TimeLeq(t1, t2) == t1[1] < t2[1] \/ (t1[1] = t2[1] /\ t1[2] <= t2[2])

\* The clock's reading as a struct timespec would hold it
Now == <<clock[1], clock[2] * NanoPerMicro>>

\* The system clock moves on.
Tick ==
  /\ \E c \in Clocks : /\ TimeLeq(clock, c)
                       /\ c # clock
                       /\ clock' = c
  /\ UNCHANGED <<pc, locals, poolv, thread_stop, statusv, mutex, hung, joinv, stop_epoch, tw_ts>>

\* rc of gettimeofday(&tp, NULL) when it fails
GettimeofdayFailed == 0 - 1

\* timed_wait(wait_secs) up to its call of pthread_cond_timedwait:
\* rc = gettimeofday(&tp, NULL), returned when not 0 (ok says whether the
\* clock could be read); ts.tv_sec = tp.tv_sec + wait_secs;
\* ts.tv_nsec = tp.tv_usec * 1000.
TwCall(t, wait_secs, ok) ==
  /\ pc[t] = "idle"
  /\ arg' = [arg EXCEPT ![t] = wait_secs]
  /\ IF ok
       THEN /\ tw_ts' = [tw_ts EXCEPT ![t] = <<clock[1] + wait_secs, clock[2] * NanoPerMicro>>]
            /\ rv' = rv
            /\ pc' = [pc EXCEPT ![t] = "tw_wait"]
       ELSE /\ tw_ts' = tw_ts
            /\ rv' = [rv EXCEPT ![t] = GettimeofdayFailed]
            /\ pc' = [pc EXCEPT ![t] = "tw_ret"]
  /\ UNCHANGED <<val, iv, sz, poolv, thread_stop, statusv, mutex, hung, joinv, stop_epoch, clock>>

\* The deadline timed_wait_milli computes: wait_secs *= 1000000;
\* ts.tv_sec = tp.tv_sec; ts.tv_nsec = tp.tv_usec + wait_secs.
MilliDeadline(tp, wait_secs) == <<tp[1], tp[2] + wait_secs * NanoPerMilli>>

\* timed_wait_milli(wait_secs) up to its call of pthread_cond_timedwait:
\* return 0 at once when wait_secs <= 0; rc = gettimeofday(&tp, NULL),
\* returned when not 0; then the deadline.
TwmCall(t, wait_secs, ok) ==
  /\ pc[t] = "idle"
  /\ arg' = [arg EXCEPT ![t] = wait_secs]
  /\ IF wait_secs <= 0
       THEN /\ tw_ts' = tw_ts
            /\ rv' = [rv EXCEPT ![t] = 0]
            /\ pc' = [pc EXCEPT ![t] = "twm_ret"]
       ELSE IF ok
         THEN /\ tw_ts' = [tw_ts EXCEPT ![t] = MilliDeadline(clock, wait_secs)]
              /\ rv' = rv
              /\ pc' = [pc EXCEPT ![t] = "twm_wait"]
         ELSE /\ tw_ts' = tw_ts
              /\ rv' = [rv EXCEPT ![t] = GettimeofdayFailed]
              /\ pc' = [pc EXCEPT ![t] = "twm_ret"]
  /\ UNCHANGED <<val, iv, sz, poolv, thread_stop, statusv, mutex, hung, joinv, stop_epoch, clock>>

\* The error numbers pthread_cond_timedwait returns, as errno.h of Linux
\* numbers them; what matters is that they are not 0.
EINVAL    == 22
ETIMEDOUT == 110

\* A time with its nanoseconds carried into the seconds
Normal(t) == <<t[1] + t[2] \div NanoPerSec, t[2] % NanoPerSec>>

\* What pthread_cond_timedwait(&cond, &mutex, &abstime) can return with now,
\* on a condition variable nobody signals: EINVAL for a tv_nsec that is not
\* in 0..999999999, ETIMEDOUT once the clock has reached abstime, and 0 at
\* any time (a spurious wakeup).  Empty while it can only block.
CondTimedwaitOutcomes(abstime) ==
  IF abstime[2] < 0 \/ abstime[2] >= NanoPerSec
    THEN {EINVAL}
    ELSE {0} \cup (IF TimeLeq(abstime, Now) THEN {ETIMEDOUT} ELSE {})

\* timed_wait from the return of pthread_cond_timedwait on: the unlock and
\* the destruction of the local mutex and condition variable, return rc.
\* wait_secs and ts are dead from here on.
TwWake(t) ==
  /\ pc[t] = "tw_wait"
  /\ \E rc \in CondTimedwaitOutcomes(tw_ts[t]) : rv' = [rv EXCEPT ![t] = rc]
  /\ arg' = [arg EXCEPT ![t] = 0]
  /\ tw_ts' = [tw_ts EXCEPT ![t] = <<0, 0>>]
  /\ pc' = [pc EXCEPT ![t] = "tw_ret"]
  /\ UNCHANGED <<val, iv, sz, poolv, thread_stop, statusv, mutex, hung, joinv, stop_epoch, clock>>

\* timed_wait_milli from the return of pthread_cond_timedwait on.
TwmWake(t) ==
  /\ pc[t] = "twm_wait"
  /\ \E rc \in CondTimedwaitOutcomes(tw_ts[t]) : rv' = [rv EXCEPT ![t] = rc]
  /\ arg' = [arg EXCEPT ![t] = 0]
  /\ tw_ts' = [tw_ts EXCEPT ![t] = <<0, 0>>]
  /\ pc' = [pc EXCEPT ![t] = "twm_ret"]
  /\ UNCHANGED <<val, iv, sz, poolv, thread_stop, statusv, mutex, hung, joinv, stop_epoch, clock>>

(* ------------------------ memset, byte by byte --------------------------- *)
(* memset(status_array, 0, n) stores (unsigned char)0 into each of the      *)
(* first n bytes, one after the other; status_array[index] = status is one  *)
(* store of an int.  IsaMemset is the memset as every thread that takes     *)
(* status_array_mutex sees it; IsaMemsetSome and IsaMemsetRest are the same *)
(* memset cut at any byte, which is what a thread sees whose store is not   *)
(* kept out by the mutex.                                                   *)
ByteRange == 256     \* the values of one unsigned char
SizeofInt == 4       \* sizeof(int), in bytes

\* Byte j of the int v, lowest address first (little-endian)
ByteOf(v, j) == (v \div (ByteRange ^ j)) % ByteRange

\* The int v, at byte offset off of the block, once the bytes from..to-1 of
\* the block are zero
RECURSIVE ZeroedInt(_, _, _, _, _)
ZeroedInt(v, off, from, to, j) ==
  IF j >= SizeofInt
    THEN 0
    ELSE (IF off + j >= from /\ off + j < to THEN 0 ELSE ByteOf(v, j) * (ByteRange ^ j))
           + ZeroedInt(v, off, from, to, j + 1)

\* The array once the bytes from..to-1 of its block are zero
ZeroBytes(array, from, to) ==
  [i \in 1..Len(array) |-> ZeroedInt(array[i], (i - 1) * SizeofInt, from, to, 0)]

\* init_status_array, else branch: the memset has stored its first k bytes,
\* for any k.  Bytes past the end of the block are a store outside the array.
IsaMemsetSome(t) ==
  /\ pc[t] = "isa_cs"
  /\ IF sizeof_status_array > Len(status_array)
       THEN /\ wild_write' = TRUE
            /\ pc' = Undefined
            /\ UNCHANGED <<status_array, iv>>
       ELSE /\ \E k \in 0..(SizeofInt * sizeof_status_array) :
                  /\ status_array' = ZeroBytes(status_array, 0, k)
                  /\ iv' = [iv EXCEPT ![t] = k]
            /\ wild_write' = wild_write
            /\ pc' = [pc EXCEPT ![t] = "isa_memset"]
  /\ UNCHANGED <<arg, val, rv, sz, poolv, thread_stop, status_array_addr,
                 sizeof_status_array, mutex, hung, joinv, stop_epoch, waitv>>

\* init_status_array, else branch: the memset stores the bytes that are
\* left, as far as the block goes; _unlock_status_array().
IsaMemsetRest(t) ==
  /\ pc[t] = "isa_memset"
  /\ status_array' = ZeroBytes(status_array, iv[t], SizeofInt * sizeof_status_array)
  /\ iv' = [iv EXCEPT ![t] = 0]
  /\ Unlock("status_array_mutex", t)
  /\ pc' = [pc EXCEPT ![t] = "isa_ret"]
  /\ UNCHANGED <<arg, val, rv, sz, poolv, thread_stop, status_array_addr,
                 sizeof_status_array, wild_write, hung, joinv, stop_epoch, waitv>>

\* The status a worker reports: a number of its own (its pid, or a tag),
\* which takes more than one byte.
StatusTag(w) == ByteRange + w

\* The slot a worker reports into: its own, different from any other's.
SlotOf(w) == w - 1

(* --------------------------- specification ------------------------------ *)
\* create_threads, step by step (main thread).
Creating ==
  \/ \E n \in 1..MaxPool : CreateCall(n)
  \/ CreateMalloc
  \/ CreateLocalMutexes
  \/ CreateClearStop
  \/ CreateSpawn(FALSE)
  \/ CreateReturn

\* join_threads after its call, step by step (main thread).
Joining ==
  \/ JoinStep
  \/ JoinWait
  \/ JoinFree
  \/ DestroyAllMutexes

\* Spec: the life cycle, the stop flag and the pool size.  Any thread stops,
\* resumes and polls; the main thread also asks for the pool size.
Next ==
  \/ Creating
  \/ \E ts \in {<<>>} \cup LivenessArrays : JoinCall(ts)
  \/ Joining
  \/ GpsLock(Main)
  \/ GpsRead(Main)
  \/ \E t \in Threads : StopLock(t)
  \/ \E t \in Threads : StopWrite(t)
  \/ \E t \in Threads, b \in 0..1 : SetStopLock(t, b)
  \/ \E t \in Threads : SetStopWrite(t)
  \/ \E t \in Threads : ShouldLock(t)
  \/ \E t \in Threads : ShouldRead(t)
  \/ \E t \in Threads : Return(t)
  \/ \E w \in Tids : WorkerExit(w)

Spec == Init /\ [][Next]_vars

\* SpecStatus: the status array over the pool's life cycle.  The main thread
\* creates pools of every size and joins all their workers, creates,
\* reinitialises and reads the array and writes it with any index; workers
\* report into the slots a pool can have.  Either allocation can fail.
NextStatus ==
  \/ Creating
  \/ JoinCall(<<>>)
  \/ Joining
  \/ CreateMallocFail
  \/ CsaLock(Main)
  \/ CsaBody(Main)
  \/ CsaMallocFail(Main)
  \/ CsaExit(Main)
  \/ IsaCall(Main)
  \/ IsaLock(Main)
  \/ IsaMemset(Main)
  \/ GsaLock(Main)
  \/ GsaRead(Main)
  \/ \E i \in Indexes, v \in Values : SseLock(Main, i, v)
  \/ \E w \in Tids, i \in 0..(MaxPool - 1), v \in Values : SseLock(w, i, v)
  \/ \E t \in Threads : SseBody(t)
  \/ \E t \in Threads : Return(t)
  \/ \E w \in Tids : WorkerExit(w)

SpecStatus == Init /\ [][NextStatus]_vars

\* SpecLive: the shutdown sequence, over and over.  The main thread creates a
\* pool, calls stop_threads, then join_threads with NULL or with any flags.
\* Workers poll should_stop; a cooperating worker returns once it reads true, a
\* hung one never does.  Every thread that can take a step, or can take one
\* again and again, eventually takes it.
MainLive ==
  \/ \E n \in 1..MaxPool : CreateCall(n)
  \/ CreateMalloc
  \/ CreateLocalMutexes
  \/ CreateClearStop
  \/ \E h \in BOOLEAN : CreateSpawn(h)
  \/ CreateReturn
  \/ thread_pool # <<>> /\ stop_epoch # "stopped" /\ StopLock(Main)
  \/ StopWrite(Main)
  \/ \E ts \in {<<>>} \cup LivenessArrays : stop_epoch = "stopped" /\ JoinCall(ts)
  \/ Joining
  \/ Return(Main)

WorkerLive(w) ==
  \/ ShouldLock(w)
  \/ ShouldRead(w)
  \/ CoopReturn(w)
  \/ CoopExit(w)

NextLive ==
  \/ MainLive
  \/ \E w \in Tids : WorkerLive(w)

SpecLive ==
  /\ Init
  /\ [][NextLive]_vars
  /\ SF_vars(MainLive)
  /\ \A w \in Tids : SF_vars(WorkerLive(w))

\* SpecIndex: the handle table and the lookups in it.  The main thread
\* creates pools, with pthread_create in either order and failing or not,
\* looks any handle up and joins with NULL; every worker looks itself up.
NextIndex ==
  \/ \E n \in 1..MaxPool : CreateCall(n)
  \/ CreateMalloc
  \/ CreateLocalMutexes
  \/ CreateClearStop
  \/ CreateSpawn(FALSE)
  \/ CreateStart
  \/ CreateStore
  \/ CreateFail
  \/ CreateReturn
  \/ JoinCall(<<>>)
  \/ Joining
  \/ \E h \in Threads : FmiCall(Main, h)
  \/ \E w \in Tids : FmiCall(w, w)
  \/ \E t \in Threads : FmiSize(t)
  \/ \E t \in Threads : FmiLock(t)
  \/ \E t \in Threads : FmiScan(t)
  \/ \E t \in Threads : FmiUnlock(t)
  \/ \E t \in Threads : Return(t)
  \/ \E w \in Tids : WorkerExit(w)

SpecIndex == Init /\ [][NextIndex]_vars

\* SpecLocks: the four locks and the two calls that block.  The main thread
\* creates pools, reads the status array pointer, sleeps in timed_wait and
\* joins; the workers poll should_stop, look themselves up, report a status
\* and sleep in timed_wait_milli, while the clock runs.
NextLocks ==
  \/ Creating
  \/ JoinCall(<<>>)
  \/ Joining
  \/ GsaLock(Main)
  \/ GsaRead(Main)
  \/ TwCall(Main, 1, TRUE)
  \/ TwWake(Main)
  \/ \E w \in Tids : ShouldLock(w)
  \/ \E w \in Tids : ShouldRead(w)
  \/ \E w \in Tids : FmiCall(w, w)
  \/ \E w \in Tids : FmiSize(w)
  \/ \E w \in Tids : FmiLock(w)
  \/ \E w \in Tids : FmiScan(w)
  \/ \E w \in Tids : FmiUnlock(w)
  \/ \E w \in Tids : SseLock(w, 0, MaxVal)
  \/ \E w \in Tids : SseBody(w)
  \/ \E w \in Tids : TwmCall(w, 1, TRUE)
  \/ \E w \in Tids : TwmWake(w)
  \/ \E t \in Threads : Return(t)
  \/ \E w \in Tids : WorkerExit(w)
  \/ Tick

SpecLocks == Init /\ [][NextLocks]_vars

\* SpecWait: the timed waits.  A thread asks for any duration, the clock is
\* read at any time or cannot be read, and the clock runs while it waits.
NextWait ==
  \/ \E n \in WaitArgs, ok \in BOOLEAN : TwCall(Main, n, ok)
  \/ \E n \in WaitArgs, ok \in BOOLEAN : TwmCall(Main, n, ok)
  \/ TwWake(Main)
  \/ TwmWake(Main)
  \/ Return(Main)
  \/ Tick

SpecWait == Init /\ [][NextWait]_vars

\* SpecRace: status reports against init_status_array.  The main thread
\* creates pools of workers that return or never do, calls init_status_array
\* and joins with NULL or with any flags; every worker, joined or given up
\* on, reports its own status into its own slot.
NextRace ==
  \/ \E n \in 1..MaxPool : CreateCall(n)
  \/ CreateMalloc
  \/ CreateLocalMutexes
  \/ CreateClearStop
  \/ \E h \in BOOLEAN : CreateSpawn(h)
  \/ CreateReturn
  \/ \E ts \in {<<>>} \cup LivenessArrays : JoinCall(ts)
  \/ Joining
  \/ IsaCall(Main)
  \/ pc[Main] = "isa_create" /\ CsaLock(Main)
  \/ CsaBody(Main)
  \/ IsaLock(Main)
  \/ IsaMemsetSome(Main)
  \/ IsaMemsetRest(Main)
  \/ \E w \in Tids : SseLock(w, SlotOf(w), StatusTag(w))
  \/ \E w \in Tids : SseBody(w)
  \/ \E t \in Threads : Return(t)
  \/ \E w \in Tids : WorkerExit(w)

SpecRace == Init /\ [][NextRace]_vars

(* ------------------------------ claims ---------------------------------- *)
JoinPcs == {"join_loop", "join_wait", "join_destroy", "join_ret"}
JoinDonePcs == {"join_destroy", "join_ret"}

\* The entries of join_log that are about the worker at C index i.
LogOf(i) == {k \in 1..Len(join_log) : join_log[k][2] = i}

\* C1 as stated: once a stop_threads call has returned, every should_stop
\* call that reads the flag returns true until a set_stop(false) clears it.
C1_StopHoldsUntilSetStop ==
  [][\A t \in Threads :
       (pc[t] = "should_cs" /\ pc'[t] = "should_ret" /\ stop_epoch # "none")
          => rv'[t] = 1]_vars

\* C1 amended: once a stop_threads call has returned, every should_stop call
\* that reads the flag returns true until a set_stop(false) or a
\* create_threads clears it.
C1_StopHoldsUntilCleared ==
  [][\A t \in Threads :
       (pc[t] = "should_cs" /\ pc'[t] = "should_ret" /\ stop_epoch = "stopped")
          => rv'[t] = 1]_vars

\* A worker's should_stop has returned true after a stop_threads, and no
\* set_stop(false) or create_threads came since.
C1_Witness ==
  \E w \in Tids : pc[w] = "should_ret" /\ rv[w] = 1 /\ stop_epoch = "stopped"

\* C2: set_status_element(index, v) returns true exactly when
\* 0 <= index < sizeof_status_array, and with an index out of range it stores
\* nothing, inside or outside the array.
C2_StatusBounds ==
  [][\A t \in Threads :
       (pc[t] = "sse_cs" /\ pc'[t] # "sse_cs")
          => LET inRange == 0 <= arg[t] /\ arg[t] < sizeof_status_array
             IN  /\ (rv'[t] = 1) <=> inRange
                 /\ ~inRange => /\ status_array' = status_array
                                /\ wild_write' = wild_write]_vars

\* C3: join_threads(liveness) calls pthread_join for worker i exactly when
\* liveness[i] is true, once, and reports every other worker as hung.
C3_JoinSelective ==
  (pc[Main] \in JoinPcs /\ will_check_status = 1)
     => /\ \A k \in 1..Len(join_log) :
             (join_log[k][1] = "join") <=> (t_status[join_log[k][2] + 1] # 0)
        /\ \A i \in 0..(pool_size - 1) : Cardinality(LogOf(i)) <= 1
        /\ pc[Main] \in JoinDonePcs
             => \A i \in 0..(pool_size - 1) : Cardinality(LogOf(i)) = 1

\* join_threads(liveness) has gone through a pool of MaxPool workers, joined
\* some and skipped some.
C3_Witness ==
  /\ pc[Main] = "join_ret"
  /\ will_check_status = 1
  /\ pool_size = MaxPool
  /\ \E i, j \in 1..pool_size : t_status[i] = 1 /\ t_status[j] = 0

\* C4: join_threads(NULL) calls pthread_join once for every worker of the
\* table, in the order 0..pool_size-1, whatever the status array holds.
C4_JoinComplete ==
  (pc[Main] \in JoinPcs /\ will_check_status = 0)
     => /\ \A k \in 1..Len(join_log) : join_log[k] = <<"join", k - 1>>
        /\ Len(join_log) = iv[Main] + (IF pc[Main] = "join_wait" THEN 1 ELSE 0)
        /\ pc[Main] \in JoinDonePcs => Len(join_log) = pool_size

\* join_threads(NULL) has joined a pool of MaxPool workers while the status
\* array held a slot that is 0 and one that is not.
C4_Witness ==
  /\ pc[Main] = "join_ret"
  /\ will_check_status = 0
  /\ pool_size = MaxPool
  /\ Len(join_log) = MaxPool
  /\ \E i, j \in 1..Len(status_array) : status_array[i] = 0 /\ status_array[j] # 0

\* C5: when join_threads returns the handle table is released and the four
\* mutexes are destroyed; when a later create_threads(f, ctx, m) returns,
\* pool_size is m, the table has m slots and the four mutexes are initialised.
C5_TeardownFinal ==
  /\ pc[Main] = "join_ret"
       => /\ thread_pool = <<>>
          /\ \A m \in MutexNames : mutex[m].st = "destroyed"
  /\ pc[Main] = "create_ret"
       => /\ pool_size = arg[Main]
          /\ Len(thread_pool) = arg[Main]
          /\ \A m \in MutexNames : mutex[m].st = "init"

\* C6: when create_threads(f, ctx, n) returns, pool_size is n and the table
\* holds n pairwise different handles, each of a started worker;
\* get_pool_size returns pool_size; and pool_size is the table's length
\* whenever there is a table.
C6_PoolSize ==
  /\ pc[Main] = "create_ret"
       => /\ pool_size = arg[Main]
          /\ Len(thread_pool) = arg[Main]
          /\ \A i, j \in 1..Len(thread_pool) :
                i # j => thread_pool[i] # thread_pool[j]
          /\ \A i \in 1..Len(thread_pool) :
                thread_pool[i] \in Tids /\ pc[thread_pool[i]] # "none"
  /\ pc[Main] = "gps_ret" => rv[Main] = pool_size
  /\ thread_pool # <<>> => pool_size = Len(thread_pool)

\* get_pool_size has returned MaxPool for a pool of MaxPool workers.
C6_Witness ==
  /\ pc[Main] = "gps_ret"
  /\ rv[Main] = MaxPool
  /\ Len(thread_pool) = MaxPool
  /\ \A i \in 1..MaxPool : pc[thread_pool[i]] # "none"

\* C7: init_status_array with sizeof_status_array different from pool_size
\* leaves a status array of pool_size slots, every one 0.
C7_ReinitNewSize ==
  [][\A t \in Threads :
       (pc[t] = "csa_cs" /\ arg[t] = 1 /\ pc'[t] = "isa_ret")
          => /\ Len(status_array') = pool_size
             /\ sizeof_status_array' = pool_size
             /\ \A k \in 1..Len(status_array') : status_array'[k] = 0]_vars

\* C8: init_status_array with sizeof_status_array equal to pool_size takes the
\* branch that zeroes in place; from its test to its return the array stays
\* the same block of the same length; and its memset leaves every slot 0.
C8_ReinitSameSize ==
  [][\A t \in Threads :
       /\ (pc[t] = "idle" /\ pc'[t] \in {"isa_zero", "isa_create"}
              /\ pool_size = sizeof_status_array)
            => pc'[t] = "isa_zero"
       /\ pc[t] \in {"isa_zero", "isa_cs"}
            => /\ status_array_addr' = status_array_addr
               /\ Len(status_array') = Len(status_array)
               /\ sizeof_status_array' = sizeof_status_array
       /\ (pc[t] = "isa_cs" /\ pc'[t] = "isa_ret")
            => \A k \in 1..Len(status_array') : status_array'[k] = 0]_vars

\* init_status_array is about to zero in place an array of MaxPool slots into
\* which a worker has written a value that is not 0.
C8_WitnessBefore ==
  /\ pc[Main] = "isa_cs"
  /\ Len(status_array) = MaxPool
  /\ \E k \in 1..MaxPool : status_array[k] # 0
  /\ \E w \in Tids : pc[w] = "sse_ret" /\ rv[w] = 1

\* init_status_array has zeroed in place an array of MaxPool slots.
C8_Witness ==
  /\ pc[Main] = "isa_ret"
  /\ arg[Main] = 0
  /\ Len(status_array) = MaxPool
  /\ status_array_addr # NullPtr
  /\ \A k \in 1..MaxPool : status_array[k] = 0
  /\ \E w \in Tids : pc[w] = "sse_ret" /\ rv[w] = 1

\* Every thread that exists is a worker of the current table, and cooperates.
AllCooperate ==
  \A w \in Tids :
     pc[w] # "none" => /\ ~hung[w]
                       /\ \E i \in 1..Len(thread_pool) : thread_pool[i] = w

\* C9: with cooperating workers only, a join_threads(NULL) called after
\* create_threads and stop_threads returns, with every worker joined, the
\* table released and the mutexes destroyed.
C9_CoopShutdown ==
  (pc[Main] = "join_loop" /\ iv[Main] = 0 /\ join_log = <<>>
      /\ will_check_status = 0 /\ AllCooperate)
    ~> (pc[Main] = "join_ret" /\ Len(join_log) = pool_size
          /\ (\A w \in Tids : pc[w] = "none")
          /\ thread_pool = <<>>
          /\ \A m \in MutexNames : mutex[m].st = "destroyed")

\* join_threads(NULL) has returned from a pool of MaxPool workers.
C9_Witness ==
  /\ pc[Main] = "join_ret"
  /\ will_check_status = 0
  /\ pool_size = MaxPool
  /\ Len(join_log) = MaxPool
  /\ \A w \in Tids : pc[w] = "none"

\* The flags say false for every hung worker of the table.
HungAreSkipped ==
  \A i \in 1..Len(thread_pool) :
     (thread_pool[i] \in Tids /\ hung[thread_pool[i]]) => t_status[i] = 0

\* C10: join_threads(liveness) returns when every worker it is told to join
\* ends, though the others never end; and join_threads(NULL) never gets past
\* a worker of the table that never ends, so it does not return.
C10_HungWorkers ==
  /\ (pc[Main] = "join_loop" /\ iv[Main] = 0 /\ join_log = <<>>
         /\ will_check_status = 1 /\ HungAreSkipped)
       ~> (pc[Main] = "join_ret")
  /\ [](pc[Main] \in JoinPcs /\ will_check_status = 0
          => /\ \A i \in 1..Len(thread_pool) :
                   hung[thread_pool[i]] => iv[Main] < i
             /\ pc[Main] \in JoinDonePcs => Len(join_log) = pool_size)

\* join_threads(liveness) has returned though a worker it skipped is hung and
\* still there, after joining another.
C10_Witness ==
  /\ pc[Main] = "join_ret"
  /\ will_check_status = 1
  /\ \E w \in Tids : hung[w] /\ pc[w] \notin {"none", "exited"}
  /\ \E k \in 1..Len(join_log) : join_log[k][1] = "join"
  /\ \E k \in 1..Len(join_log) : join_log[k][1] = "hung"

\* join_threads(NULL) waits in pthread_join for a hung worker.
C10_WitnessBlocked ==
  /\ pc[Main] = "join_wait"
  /\ will_check_status = 0
  /\ hung[thread_pool[iv[Main] + 1]]

\* The lock of each shared field.
FieldLock ==
  [thread_pool  |-> "thread_pool_mutex",
   pool_size    |-> "pool_size_mutex",
   thread_stop  |-> "stop_mutex",
   status_array |-> "status_array_mutex"]

\* The shared fields that the step thread t takes reads or writes
\* (status_array stands for the array, the pointer and
\* sizeof_status_array); empty when the step is not t's.
Touched(t) ==
  IF pc'[t] \in {"undefined", ERROR_CODE_MALLOC} \/ (pc'[t] = pc[t] /\ iv'[t] = iv[t])
    THEN {}
    ELSE CASE pc[t] = "idle" /\ pc'[t] = "create_malloc" -> {"pool_size"}
           [] pc[t] = "create_malloc" -> {"pool_size", "thread_pool"}
           [] pc[t] = "create_stop" -> {"thread_stop"}
           [] pc[t] \in {"create_loop", "create_store"} -> {"pool_size", "thread_pool"}
           [] pc[t] = "join_loop" -> {"pool_size", "thread_pool"}
           [] pc[t] = "idle" /\ pc'[t] \in {"isa_create", "isa_zero"}
                -> {"pool_size", "status_array"}
           [] pc[t] = "csa_cs" -> {"pool_size", "status_array"}
           [] pc[t] \in {"isa_cs", "gsa_cs", "sse_cs"} -> {"status_array"}
           [] pc[t] \in {"stop_cs", "setstop_cs", "should_cs"} -> {"thread_stop"}
           [] pc[t] \in {"gps_cs", "fmi_gps_cs"} -> {"pool_size"}
           [] pc[t] \in {"fmi_scan", "fmi_found"} -> {"thread_pool"}
           [] OTHER -> {}

\* C11: every step of a library operation that reads or writes one of the
\* four shared fields is taken by a thread that holds that field's lock.
C11_LockDiscipline ==
  [][\A t \in Threads : \A f \in Touched(t) : Holds(t, FieldLock[f])]_vars

\* The locks thread t holds
LocksHeld(t) == {m \in MutexNames : Holds(t, m)}

\* Where a thread is while it is inside pthread_join or
\* pthread_cond_timedwait
BlockedPcs == {"join_wait", "tw_wait", "twm_wait"}

\* Where a thread is between the lock and the unlock of mutex m: steps
\* that wait for nothing.
CsPcs(m) ==
  CASE m = "stop_mutex" -> {"stop_cs", "setstop_cs", "should_cs"}
    [] m = "pool_size_mutex" -> {"gps_cs", "fmi_gps_cs"}
    [] m = "thread_pool_mutex" -> {"fmi_scan", "fmi_found"}
    [] m = "status_array_mutex" -> {"csa_cs", "isa_cs", "isa_memset", "gsa_cs", "sse_cs"}

\* C12: no thread holds more than one of the four locks; no thread holds one
\* while it is inside pthread_join or a timed wait; and whoever holds a lock
\* is between that lock's lock and unlock calls, where it waits for nothing,
\* so no thread waits for a lock that will not be released.
C12_NoNesting ==
  /\ \A t \in Threads : Cardinality(LocksHeld(t)) <= 1
  /\ \A t \in Threads : pc[t] \in BlockedPcs => LocksHeld(t) = {}
  /\ \A m \in MutexNames :
        mutex[m].owner # NoOwner => pc[mutex[m].owner] \in CsPcs(m) \cup {"undefined"}

\* The main thread is inside pthread_join and a worker inside its timed wait
\* while another worker, past get_pool_size, scans the table under its lock.
C12_Witness ==
  /\ pc[Main] = "join_wait"
  /\ \E w, v \in Tids :
        /\ pc[w] = "twm_wait"
        /\ pc[v] = "fmi_scan"
        /\ Holds(v, "thread_pool_mutex")

\* The time n milliseconds after time t
MillisAfter(t, n) == Normal(<<t[1], t[2] + n * NanoPerMilli>>)

\* C13: timed_wait_milli(n) with n <= 0 returns 0 without waiting, and with
\* n > 0 and the clock read, the deadline it hands to pthread_cond_timedwait
\* is not earlier than n milliseconds after the clock reading.
C13_WaitFloor ==
  [][\A t \in Threads :
       (pc[t] = "idle" /\ pc'[t] \in {"twm_wait", "twm_ret"})
          => IF arg'[t] <= 0
               THEN pc'[t] = "twm_ret" /\ rv'[t] = 0
               ELSE pc'[t] = "twm_wait"
                      => TimeLeq(MillisAfter(Now, arg'[t]), Normal(tw_ts'[t]))]_vars

\* C14: timed_wait and timed_wait_milli return a value that is not 0 only
\* when gettimeofday failed, and return 0 when pthread_cond_timedwait
\* returns with the deadline reached.
C14_WaitResult ==
  [][\A t \in Threads :
       /\ (pc[t] \in {"idle", "tw_wait", "twm_wait"} /\ pc'[t] \in {"tw_ret", "twm_ret"}
              /\ rv'[t] # 0)
            => pc[t] = "idle" /\ rv'[t] = GettimeofdayFailed
       /\ (pc[t] \in {"tw_wait", "twm_wait"} /\ pc'[t] \in {"tw_ret", "twm_ret"}
              /\ TimeLeq(Normal(tw_ts[t]), Now))
            => rv'[t] = 0]_vars

\* Where create_threads is from its malloc to its return
CreatePcs == {"create_mutexes", "create_stop", "create_loop", "create_store", "create_ret"}

\* C15: when malloc fails in create_threads the process exits with
\* ERROR_CODE_MALLOC with no worker started and no table, and create_threads
\* goes on only with a table; when malloc fails in create_status_array the
\* next step of the caller is the exit with ERROR_CODE_MALLOC, taken with the
\* status-array lock not held by it.
C15_FatalAlloc ==
  /\ [](pc[Main] \in CreatePcs => thread_pool # <<>>)
  /\ [][
        /\ (pc[Main] = "create_malloc" /\ thread_pool' = <<>>)
              => /\ pc' = Exited(ERROR_CODE_MALLOC)
                 /\ \A w \in Tids : pc[w] = "none"
        /\ \A t \in Threads :
              (pc[t] = "csa_cs" /\ pc'[t] \notin {"csa_cs", "undefined"}
                  /\ status_array_addr' = NullPtr)
                 => pc'[t] = "csa_exit"
        /\ \A u \in Threads :
              (pc[u] = "csa_exit" /\ pc'[u] \notin {"csa_exit", "undefined"})
                 => /\ pc' = Exited(ERROR_CODE_MALLOC)
                    /\ ~Holds(u, "status_array_mutex")
     ]_vars

\* The process has exited with ERROR_CODE_MALLOC from a create_threads for
\* MaxPool workers, called after an earlier pool was joined.
C15_Witness ==
  /\ pc = Exited(ERROR_CODE_MALLOC)
  /\ arg[Main] = MaxPool
  /\ pool_size = MaxPool
  /\ thread_pool = <<>>
  /\ \A m \in MutexNames : mutex[m].st = "destroyed"

\* The process has exited with ERROR_CODE_MALLOC from create_status_array,
\* called for a pool of MaxPool workers.
C15_WitnessStatus ==
  /\ pc = Exited(ERROR_CODE_MALLOC)
  /\ sizeof_status_array = MaxPool
  /\ status_array_addr = NullPtr
  /\ Len(thread_pool) = MaxPool
  /\ mutex["status_array_mutex"].owner = NoOwner

\* C16: a stop_threads call leaves thread_stop 1 whatever it was, so a second
\* call changes nothing the first left; it changes none of thread_pool,
\* pool_size, status_array and sizeof_status_array; and it can go on whenever
\* the stop lock can be taken, and again once it holds it.
C16_StopIdempotent ==
  /\ [][\A t \in Threads :
          (pc[t] = "stop_cs" /\ pc'[t] = "stop_ret")
             => /\ thread_stop' = 1
                /\ thread_stop = 1 => thread_stop' = thread_stop
                /\ UNCHANGED <<thread_pool, pool_size, status_array,
                               status_array_addr, sizeof_status_array>>]_vars
  /\ [](\A t \in Threads :
          /\ (pc[t] = "idle" /\ LockOutcomes("stop_mutex", t) # {})
               => ENABLED StopLock(t)
          /\ pc[t] = "stop_cs" => ENABLED StopWrite(t))

\* Two stop_threads calls have returned, the main thread's and a worker's,
\* while a pool exists; the flag is 1.
C16_Witness ==
  /\ pc[Main] = "stop_ret"
  /\ \E w \in Tids : pc[w] = "stop_ret"
  /\ thread_stop = 1
  /\ stop_epoch = "stopped"
  /\ Len(thread_pool) = MaxPool

\* C17: while the process runs and is not on its way out after a failed
\* allocation, sizeof_status_array is the length of the array status_array
\* points to;
\* when create_status_array or init_status_array returns it is pool_size;
\* and create_status_array leaves an array of pool_size slots whatever the
\* old array was, whose contents can be anything, whatever the old ones were.
C17_StatusLength ==
  /\ [](pc[Main] \notin {"csa_exit", ERROR_CODE_MALLOC, "undefined"}
          => Len(status_array) = sizeof_status_array)
  /\ [](pc[Main] \in {"csa_ret", "isa_ret"} => sizeof_status_array = pool_size)
  /\ [](pc[Main] = "csa_cs"
          => \A fresh \in [1..pool_size -> Values] :
                ENABLED (CsaBody(Main) /\ status_array' = fresh))
  /\ [][\A t \in Threads :
          (pc[t] = "csa_cs" /\ pc'[t] \in {"csa_ret", "isa_ret"})
             => /\ Len(status_array') = pool_size
                /\ sizeof_status_array' = pool_size]_vars

\* init_status_array has returned after it made a new array, of MaxPool
\* slots, for a pool that has a worker whose status write succeeded.
C17_Witness ==
  /\ pc[Main] = "isa_ret"
  /\ arg[Main] = 1
  /\ pool_size = MaxPool
  /\ sizeof_status_array = MaxPool
  /\ Len(status_array) = MaxPool
  /\ \E w \in Tids : pc[w] = "sse_ret" /\ rv[w] = 1

\* The positions of the table that hold handle h, as C indexes
Positions(h) == {i \in 0..(Len(thread_pool) - 1) : thread_pool[i + 1] = h}

\* C18: when _find_my_index(h), called by the thread that manages the pool,
\* returns, its value is the smallest index in 0..pool_size-1 whose slot
\* holds h, and -1 exactly when no slot holds h; and whoever calls it, the
\* value is -1 or in 0..pool_size-1.
C18_IndexLookup ==
  /\ pc[Main] = "fmi_ret"
       => /\ Len(thread_pool) = pool_size
          /\ (rv[Main] = 0 - 1) <=> (Positions(arg[Main]) = {})
          /\ Positions(arg[Main]) # {}
               => /\ rv[Main] \in Positions(arg[Main])
                  /\ \A j \in Positions(arg[Main]) : rv[Main] <= j
  /\ \A t \in Threads :
        pc[t] = "fmi_ret" => rv[t] \in (0 - 1)..(pool_size - 1)

\* _find_my_index has returned for a handle that several slots of the
\* table hold.
C18_Witness ==
  /\ pc[Main] = "fmi_ret"
  /\ rv[Main] >= 0
  /\ Cardinality(Positions(arg[Main])) > 1

\* _find_my_index has returned an index past slot 0.
C18_WitnessLater ==
  /\ pc[Main] = "fmi_ret"
  /\ rv[Main] > 0

\* _find_my_index has returned -1 for a handle a full table does not hold.
C18_WitnessNotFound ==
  /\ pc[Main] = "fmi_ret"
  /\ rv[Main] = 0 - 1
  /\ Len(thread_pool) = MaxPool
  /\ arg[Main] \in Tids

\* C19: when a worker's _find_my_index(its own handle) returns, the value is
\* not -1, no other worker has got the same value, and once create_threads
\* has filled the table it is the index of the slot that holds the worker.
C19_SelfLookup ==
  \A w \in Tids :
     pc[w] = "fmi_ret"
       => /\ rv[w] # 0 - 1
          /\ \A v \in Tids \ {w} : pc[v] = "fmi_ret" => rv[v] # rv[w]
          /\ (pc[Main] \notin {"create_loop", "create_store"} /\ rv[w] < Len(thread_pool))
               => thread_pool[rv[w] + 1] = w

\* Thread t's step takes mutex m: it enters the code between that lock's
\* lock and unlock calls.
LockStep(t, m) == pc[t] \notin CsPcs(m) /\ pc'[t] \in CsPcs(m)

\* C20: no thread calls pthread_mutex_lock on one of the four mutexes after
\* it was destroyed, and no round of the scan of _find_my_index reads
\* thread_pool after it was freed.
C20_NoUseAfterTeardown ==
  [][\A t \in Threads :
       /\ \A m \in MutexNames : LockStep(t, m) => mutex[m].st # "destroyed"
       /\ (pc[t] = "fmi_scan" /\ iv[t] < sz[t] /\ <<pc[t], iv[t]>> # <<pc'[t], iv'[t]>>)
            => thread_pool # <<>>]_vars

\* The values the calls of set_status_element write to C index i
Reports(i) == {StatusTag(w) : w \in {u \in Tids : SlotOf(u) = i}}

\* Where a thread is while it replaces or zeroes the status array
ReinitPcs == {"csa_cs", "isa_cs", "isa_memset"}

\* C21: no status update is lost.  A set_status_element call that returns
\* true leaves its value in its slot and every other slot as it was; no step
\* but such a store or a reinitialisation of the array changes a slot, so
\* stores to different slots with no reinitialisation in between all stand;
\* and when the memset of init_status_array is over, every slot holds zero
\* or the value a set_status_element call wrote to it while the memset ran,
\* never anything else.
C21_NoLostUpdate ==
  [][/\ \A t \in Threads :
          (pc[t] = "sse_cs" /\ pc'[t] = "sse_ret" /\ rv'[t] = 1)
             => /\ Len(status_array') = Len(status_array)
                /\ \A k \in 1..Len(status_array) :
                      status_array'[k] = IF k = arg[t] + 1 THEN val[t]
                                                           ELSE status_array[k]
     /\ (\A t \in Threads : pc[t] \in ReinitPcs \cup {"sse_cs"} => pc'[t] = pc[t])
          => status_array' = status_array
     /\ \A t \in Threads :
          (pc[t] = "isa_memset" /\ pc'[t] = "isa_ret")
             => \A k \in 1..Len(status_array') :
                   status_array'[k] \in {0} \cup Reports(k - 1)]_vars

=============================================================================
